---- MODULE Spec2Model ----
(***************************************************************************)
(* Model of the streaming client of the QNA-RAG frontend:                  *)
(*   - ApiClient.rebuildVectorStoreWithProgress and ApiClient.uploadDocument*)
(*     (src/frontend/src/lib/api.ts), which read a server-sent event stream *)
(*     chunk by chunk,                                                      *)
(*   - the query string both rebuild operations build from their filters,   *)
(*   - SettingsPage.rebuildVectorStore, the caller that owns the progress   *)
(*     state and the trigger button (src/frontend/src/pages/SettingsPage.tsx).*)
(*                                                                         *)
(* The response body is a sequence of text tokens.  The server appends      *)
(* whole frames to it; reader.read() hands the client any non-empty prefix  *)
(* of what is pending, so a chunk boundary can fall anywhere.               *)
(***************************************************************************)
EXTENDS Integers, Sequences, FiniteSets, TLC

\* ------------------------------------------------------------------ bounds
\* Frames the server writes into one response body.
MaxFrames == 3

\* ------------------------------------------------------------- text tokens
\* "D" is the text 'data: ', "N" is '\n', "G" is text that is not JSON.
\* The j_* tokens are JSON texts of progress events.
JsonTexts == {"j_p10", "j_p50", "j_done", "j_failX", "j_nostatus"}
Tokens == {"D", "N", "G"} \cup JsonTexts

NoMessage == "undefined"
\* data.status of an event that has no status field
NoStatus == "undefined"
NoProgress == -1

\* JSON.parse of a JSON text: the event object it denotes.
EventOf(t) ==
  CASE t = "j_p10"   -> [status |-> "processing", progress |-> 10,  message |-> "Processing"]
    [] t = "j_p50"   -> [status |-> "processing", progress |-> 50,  message |-> "Processing"]
    [] t = "j_done"  -> [status |-> "completed",  progress |-> 100, message |-> "Done"]
    [] t = "j_failX" -> [status |-> "failed",     progress |-> 50,  message |-> "X"]
    [] t = "j_nostatus" -> [status |-> NoStatus,  progress |-> 50,  message |-> "Processing"]

Events == {EventOf(t) : t \in JsonTexts}

\* The frames a server can write: an event frame, and a data line whose
\* payload is not JSON.
EventFrame(t) == <<"D", t, "N">>
BadFrame == <<"D", "G", "N">>

\* ----------------------------------------------------------- pure helpers
RECURSIVE Reverse(_)
Reverse(s) == IF s = <<>> THEN <<>> ELSE Append(Reverse(Tail(s)), Head(s))

\* chunk.split('\n')
RECURSIVE SplitFrom(_, _)
SplitFrom(s, cur) ==
  IF s = <<>> THEN <<cur>>
  ELSE IF Head(s) = "N" THEN <<cur>> \o SplitFrom(Tail(s), <<>>)
  ELSE SplitFrom(Tail(s), Append(cur, Head(s)))

\* The lines of a chunk taken last to first.
SplitLinesReversed(chunk) == Reverse(SplitFrom(chunk, <<>>))

SplitLines(chunk) == SplitFrom(chunk, <<>>)

\* line.startsWith('data: ')
StartsWithData(line) == Len(line) >= 1 /\ line[1] = "D"

\* line.slice(6)
Payload(line) == Tail(line)

\* JSON.parse(payload) returns iff the payload is exactly one JSON text.
Parses(payload) == Len(payload) = 1 /\ payload[1] \in JsonTexts

JSONparse(payload) == EventOf(payload[1])

\* Only 'completed' ends the loop.
IsTerminalCompletedOnly(data) == data.status = "completed"

\* data.status === 'completed' || data.status === 'failed'
IsTerminal(data) == data.status = "completed" \/ data.status = "failed"

\* { success: data.status === 'completed', data }
TerminalOutcome(data) == [success |-> data.status = "completed", data |-> data]

\* { success: true, data: { status: 'completed' } }
FallbackOutcome ==
  [success |-> TRUE,
   data |-> [status |-> "completed", progress |-> NoProgress, message |-> NoMessage]]

NoOutcome == [success |-> FALSE, data |-> [status |-> "none", progress |-> NoProgress, message |-> NoMessage]]

\* What one pass over the lines of a chunk yields: the events handed to
\* onProgress so far, whether the function returned from inside the loop and
\* with which outcome, and whether an exception left the loop.
LoopResult(delivered, returned, threw, out) ==
  [calls |-> delivered, returned |-> returned, threw |-> threw, outcome |-> out]

RECURSIVE RebuildLines(_, _, _)

\* No catch around JSON.parse: the SyntaxError leaves the loop.
RebuildCatchRethrows(lines, i, delivered) == LoopResult(delivered, FALSE, TRUE, NoOutcome)

\* catch (e) { console.warn(...) } of rebuildVectorStoreWithProgress: the line
\* is dropped and the loop goes on with the next one.
RebuildCatch(lines, i, delivered) == RebuildLines(lines, i + 1, delivered)

\* The for-loop of rebuildVectorStoreWithProgress over the lines of one chunk,
\* from line i on.
RebuildLines(lines, i, delivered) ==
  IF i > Len(lines) THEN LoopResult(delivered, FALSE, FALSE, NoOutcome)
  ELSE LET line == lines[i] IN
    IF StartsWithData(line)
    THEN IF Parses(Payload(line))
         THEN LET data == JSONparse(Payload(line)) IN
              IF IsTerminal(data)
              THEN LoopResult(Append(delivered, data), TRUE, FALSE, TerminalOutcome(data))
              ELSE RebuildLines(lines, i + 1, Append(delivered, data))
         ELSE RebuildCatch(lines, i, delivered)
    ELSE RebuildLines(lines, i + 1, delivered)

RebuildChunk(chunk, delivered) == RebuildLines(SplitLines(chunk), 1, delivered)

\* The callback is made whatever data.status is.
HasStatusAlways(data) == TRUE

\* if (data.status && ...): the event has a status.
HasStatus(data) == data.status # NoStatus

\* The for-loop of uploadDocument: onProgress(data.status, data.progress) for
\* every parsed frame with a status; it never returns from inside the loop.
RECURSIVE UploadLines(_, _, _)
UploadLines(lines, i, delivered) ==
  IF i > Len(lines) THEN LoopResult(delivered, FALSE, FALSE, NoOutcome)
  ELSE LET line == lines[i] IN
    IF StartsWithData(line) /\ Parses(Payload(line))
    THEN LET data == JSONparse(Payload(line)) IN
         IF HasStatus(data)
         THEN UploadLines(lines, i + 1, Append(delivered, <<data.status, data.progress>>))
         ELSE UploadLines(lines, i + 1, delivered)
    ELSE UploadLines(lines, i + 1, delivered)

UploadChunk(chunk, delivered) == UploadLines(SplitLines(chunk), 1, delivered)

\* { data: { success: true } }, the value uploadDocument resolves with.
UploadOutcome ==
  [success |-> TRUE, data |-> [status |-> "upload", progress |-> NoProgress, message |-> NoMessage]]

\* A data line whose payload JSON.parse rejects.
IsMalformedLine(line) == StartsWithData(line) /\ ~Parses(Payload(line))

\* The lines of a chunk with the malformed data lines taken out.
WithoutMalformed(lines) == SelectSeq(lines, LAMBDA l : ~IsMalformedLine(l))

\* ------------------------------------------------------- the query string
\* Longest filter string tried.
MaxFilterLen == 2

\* The characters filter strings are made of: two that URLSearchParams leaves
\* as they are and two that it encodes.
FilterChars == {"u", "1", " ", "&"}
FilterStrings == UNION {[1..k -> FilterChars] : k \in 0..MaxFilterLen}
\* batch_size is a positive integer.
BatchSizes == {7, 50}

\* An optional field of the filters object: present with a value, or absent.
Some(v) == [present |-> TRUE, value |-> v]
AbsentString == [present |-> FALSE, value |-> <<>>]
AbsentNumber == [present |-> FALSE, value |-> 0]

\* filters === undefined
NoFilters ==
  [defined |-> FALSE, user_filter |-> AbsentString, document_filter |-> AbsentString,
   batch_size |-> AbsentNumber]

FilterInputs ==
  {NoFilters} \cup
  {[defined |-> TRUE, user_filter |-> u, document_filter |-> d, batch_size |-> b] :
     u \in {AbsentString} \cup {Some(v) : v \in FilterStrings},
     d \in {AbsentString} \cup {Some(v) : v \in FilterStrings},
     b \in {AbsentNumber} \cup {Some(n) : n \in BatchSizes}}

\* if (filters?.user_filter): the field is there and its string is not ''.
TruthyString(filters, opt) == filters.defined /\ opt.present /\ opt.value # <<>>

\* if (filters?.batch_size): the field is there and its number is not 0.
TruthyNumber(filters, opt) == filters.defined /\ opt.present /\ opt.value # 0

DigitChars == <<"0", "1", "2", "3", "4", "5", "6", "7", "8", "9">>

\* filters.batch_size.toString()
RECURSIVE NumberToString(_)
NumberToString(n) ==
  IF n < 10 THEN <<DigitChars[n + 1]>>
  ELSE NumberToString(n \div 10) \o <<DigitChars[(n % 10) + 1]>>

\* The characters left as they are.
EncodeCharRaw(c) == c

\* application/x-www-form-urlencoded encoding of one character, as
\* URLSearchParams.toString() applies it.
EncodeChar(c) ==
  CASE c = " " -> "+"
    [] c = "&" -> "%26"
    [] OTHER -> c

Encode(str) == [i \in DOMAIN str |-> EncodeChar(str[i])]

\* The three conditional params.append(...) calls.
BuildParams(filters) ==
  (IF TruthyString(filters, filters.user_filter)
   THEN <<[name |-> "user_filter", value |-> filters.user_filter.value]>> ELSE <<>>)
  \o (IF TruthyString(filters, filters.document_filter)
      THEN <<[name |-> "document_filter", value |-> filters.document_filter.value]>> ELSE <<>>)
  \o (IF TruthyNumber(filters, filters.batch_size)
      THEN <<[name |-> "batch_size", value |-> NumberToString(filters.batch_size.value)]>>
      ELSE <<>>)

\* params.toString(): name=value pairs joined by '&'.
RECURSIVE Serialize(_)
Serialize(params) ==
  IF params = <<>> THEN <<>>
  ELSE <<Head(params).name, "=">> \o Encode(Head(params).value)
       \o (IF Tail(params) = <<>> THEN <<>> ELSE <<"&">> \o Serialize(Tail(params)))

\* `${path}${params.toString() ? `?${params.toString()}` : ''}`
UrlFor(path, filters) ==
  LET query == Serialize(BuildParams(filters))
  IN <<path>> \o (IF query # <<>> THEN <<"?">> \o query ELSE <<>>)

RebuildPath == "/rag/admin/vector/rebuild"
StreamPath == "/rag/admin/vector/rebuild/stream"

PathOf(which) == IF which = "stream" THEN StreamPath ELSE RebuildPath

\* ------------------------------------------- tokens, storage and headers
\* Refresh requests that can be waiting inside one another for one call.
MaxRefreshDepth == 2

\* localStorage.getItem(...) === null
AbsentItem == "null"

\* The token pairs the login and refresh endpoints hand out.
TokenPairs ==
  {[access_token |-> "a1", refresh_token |-> "r1"],
   [access_token |-> "a2", refresh_token |-> "r2"]}
NoPair == [access_token |-> AbsentItem, refresh_token |-> AbsentItem]

\* The profiles GET /rag/user/profile can answer with; user === null.
Users == {"u1", "u2"}
NoUser == "null"

\* JSON.stringify(userData), and JSON.parse of such a text.
Stringify(userData) == <<"json", userData>>
JSONparseUser(text) == text[2]

\* localStorage with none of the three keys.
EmptyStorage == [access_token |-> AbsentItem, refresh_token |-> AbsentItem, user |-> <<>>]

\* The keys other than access_token are left in place.
ApiLogoutAccessOnly(st) == [st EXCEPT !.access_token = AbsentItem]

\* ApiClient.logout(): the three removeItem calls.
ApiLogout(st) ==
  [st EXCEPT !.access_token = AbsentItem, !.refresh_token = AbsentItem, !.user = <<>>]

\* Only the access token is written.
StoreTokensAccessOnly(st, data) == [st EXCEPT !.access_token = data.access_token]

\* The two setItem calls at the end of ApiClient.refreshToken().
StoreTokens(st, data) ==
  [st EXCEPT !.access_token = data.access_token, !.refresh_token = data.refresh_token]

\* Only the access token is written.
StoreLoginAccessOnly(st, data) == [st EXCEPT !.access_token = data.access_token]

\* The two setItem calls of AuthProvider.login after the login request.
StoreLogin(st, data) ==
  [st EXCEPT !.access_token = data.access_token, !.refresh_token = data.refresh_token]

\* The Authorization header of a request: none, or `Bearer ${token}`.
NoHeader == <<>>
Bearer(token) == <<"Bearer", token>>

\* The header is written whatever getItem returned.
RequestInterceptorAlways(header, token) == Bearer(token)

\* The request interceptor: if (token) config.headers.Authorization = ...
RequestInterceptor(header, token) == IF token # AbsentItem THEN Bearer(token) ELSE header

\* The flag is left as it was.
MarkRetryNot(frame) == frame

\* error.config._retry = true
MarkRetry(frame) == [frame EXCEPT !.retry = TRUE]

\* A request of the axios client on its way: what it asks for, its _retry
\* flag and the Authorization header it was last sent with.
NewFrame(kind, st) ==
  [kind |-> kind, retry |-> FALSE, auth |-> RequestInterceptor(NoHeader, st.access_token)]

\* What the server can answer: the status (500 stands for every failure
\* other than 401, a network error included) and the response data.
Statuses == {200, 401, 500}
NoData == [pair |-> NoPair, user |-> NoUser]
DataFor(kind) ==
  IF kind \in {"login", "refresh"} THEN {[pair |-> tp, user |-> NoUser] : tp \in TokenPairs}
  ELSE IF kind = "profile" THEN {[pair |-> NoPair, user |-> u] : u \in Users}
  ELSE {NoData}

LoginPath == "/auth/login"
DashboardPath == "/dashboard"

NoSend == [kind |-> "none", auth |-> NoHeader, token |-> AbsentItem]
NoReply == [status |-> 0, n |-> 0]

\* ------------------------------------------------------------------ state
VARIABLES
  storage,         \* localStorage: access_token, refresh_token, user
  pathname,        \* window.location.pathname
  stack,           \* the axios requests of the current call: the original one, then
                   \* the refresh requests waiting inside one another
  callKind,        \* what the current call asks for: "none", "login", "profile", "data"
  callPc,          \* the call: "idle", "pending", "resolved", "rejected"
  callData,        \* response.data of the resolved call
  sends,           \* times the original request of the call was sent
  refreshes,       \* POST /rag/auth/refresh requests sent for the call
  lastSend,        \* the latest request sent: its header, and access_token as stored then
  lastReply,       \* the latest answer to the original request, and to which send
  lastRefreshed,   \* the tokens refreshToken() stored last during the call
  refreshFailed,   \* refreshToken() threw during the call
  hrefAssigned,    \* window.location.href was assigned during the call
  user,            \* AuthProvider state
  authLoading,     \* AuthProvider state isLoading
  authPc,          \* AuthProvider: "mounting", "validating", "ready", "login_post", "login_profile"
  authToast,       \* title of the latest toast of AuthProvider
  loginData,       \* AuthProvider.login: the tokens the login endpoint returned
  loginResult,     \* the latest login(): "none", "pending", "resolved", "rejected"
  initResult,      \* initAuth: "pending", "skipped", "valid", "invalid"
  op,              \* the streaming operation of the current call: "none", "rebuild", "upload"
  pc,              \* the call: "idle", "requesting", "streaming", "resolved", "rejected"
  response,        \* the response fetch() resolved with
  wire,            \* text the server has written and the client has not read yet
  closed,          \* the server has ended the body
  sent,            \* events whose frames the server has written, in order (history)
  nframes,         \* frames written into this body
  calls,           \* what was handed to onProgress, in order
  outcome,         \* the value the call resolved with
  error,           \* the message of the Error the call rejected with
  readerAcquired,  \* getReader() calls of this call
  readerReleased,  \* releaseLock() calls of this call
  fetches,         \* fetch() calls of this call
  readsAfterTerminal, \* reader.read() calls made after a terminal event was delivered
  cut,             \* some chunk read so far ended inside a line
  refCalls,        \* reference run: onProgress calls for the same chunks without malformed lines
  refReturned,     \* reference run: it has resolved
  refOutcome,      \* reference run: the value it resolved with
  isLoading,       \* SettingsPage state
  rebuildProgress, \* SettingsPage state
  toast,           \* the notification raised by the current rebuildVectorStore run
  uiPc,            \* SettingsPage.rebuildVectorStore: "idle", "awaiting", "refreshing"
  result,          \* SettingsPage.rebuildVectorStore: what the awaited call resolved with
  inFlight,        \* rebuildVectorStoreWithProgress calls started and not settled
  qWhich,          \* the rebuild operation last called with filters: "none", "rebuild", "stream"
  qFilters,        \* the filters argument of that call
  qUrl,            \* the url that call requested
  role,            \* SettingsPage: user?.role as useAuth() gives it, or NoRole
  statsFetch,      \* the latest fetchBackupStats() of the mount effect or of the
                   \* Refresh Stats button: "none", "ok", "failed"
  flights,         \* axios requests under way side by side, one record each
  serverRefresh,   \* the refresh token the server accepts at present
  refreshLog,      \* the refresh tokens posted to /rag/auth/refresh, in order
  messages,        \* ChatInterface state
  chatLoading,     \* ChatInterface state isLoading
  input,           \* ChatInterface state
  sources,         \* ChatInterface state: "none" for [], or the sources of a reply
  conversationId,  \* ChatPage state selectedConversationId, the prop of ChatInterface
  chatPending,     \* the sendMessage runs waiting at their await, one record each
  historyPending,  \* the conversation whose getConversation request is under way
  chatToast,       \* title of the latest toast of ChatInterface
  now,             \* Date.now()
  listAtSend,      \* messages as the latest accepted send found it (history)
  replaced         \* the history effect has set messages since that send (history)

callVars == <<op, pc, response, wire, closed, sent, nframes, calls, outcome, error,
              readerAcquired, readerReleased, fetches, readsAfterTerminal, cut,
              refCalls, refReturned, refOutcome>>
uiVars == <<isLoading, rebuildProgress, toast, uiPc, result>>
streamVars == <<callVars, uiVars, inFlight>>
queryVars == <<qWhich, qFilters, qUrl>>
axiosVars == <<storage, pathname, stack, callKind, callPc, callData, sends, refreshes,
               lastSend, lastReply, lastRefreshed, refreshFailed, hrefAssigned>>
providerVars == <<user, authLoading, authPc, authToast, loginData, loginResult, initResult>>
authVars == <<axiosVars, providerVars>>
pageVars == <<role, statsFetch>>
parallelVars == <<flights, serverRefresh, refreshLog>>
chatVars == <<messages, chatLoading, input, sources, conversationId, chatPending,
              historyPending, chatToast, now, listAtSend, replaced>>
\* What the actions of the streaming client leave alone.
notStreamVars == <<queryVars, authVars, pageVars, parallelVars, chatVars>>
\* What the actions of the axios client and of AuthProvider leave alone.
notAuthVars == <<streamVars, queryVars, pageVars, parallelVars, chatVars>>
vars == <<streamVars, queryVars, authVars, pageVars, parallelVars, chatVars>>

\* ------------------------------------------------------------- chat data
MaxInputLen == 2
MaxClock == 2
MaxMessages == 3

\* What can be typed into the input: a letter and the blank.
ChatChars == {"a", " "}
InputStrings == UNION {[1..n -> ChatChars] : n \in 0..MaxInputLen}

\* String.prototype.trim(): the blanks at both ends are taken off.
RECURSIVE TrimStart(_)
TrimStart(s) == IF s # <<>> /\ Head(s) = " " THEN TrimStart(Tail(s)) ELSE s
Trim(s) == Reverse(TrimStart(Reverse(TrimStart(s))))

\* conversationId is undefined: a new conversation.
NoConversation == "undefined"
Conversations == {"c1"}

\* The message ids the server gives, apart from those Date.now() gives.
ServerIds == {100}

\* response.data of POST /rag/chat/.
ChatReplies ==
  [message_id : ServerIds, message : {<<"r">>}, sources : {"none", "srcs"},
   conversation_id : Conversations \cup {NoConversation}]

\* conversation.messages of GET /rag/chat/conversations/{id}.
Histories ==
  {<<>>, <<[id |-> 100, role |-> "user", content |-> <<"a">>]>>}

\* The input is not looked at.
SendBlockedLoadingOnly(text, loading) == loading

\* if (!input.trim() || isLoading) return;
SendBlocked(text, loading) == Trim(text) = <<>> \/ loading

\* message: input.trim()
MessageOf(text) == Trim(text)

\* prev.filter(msg => msg.id !== userMessage.id)
RemoveTemporary(list, id) == SelectSeq(list, LAMBDA msg : msg.id # id)

\* prev.map(msg => msg.id === userMessage.id ? {...userMessage, id} : msg)
\*     .concat(assistantMessage)
ConfirmAndAppend(list, userMessage, id, assistantMessage) ==
  Append([i \in 1..Len(list) |->
            IF list[i].id = userMessage.id THEN [userMessage EXCEPT !.id = id] ELSE list[i]],
         assistantMessage)

\* The sequence without its k-th element.
Without(seq, k) == SubSeq(seq, 1, k - 1) \o SubSeq(seq, k + 1, Len(seq))

\* The requests that can be under way side by side.
Requests == {"A", "B"}

\* A request that has not been made.
IdleFlight ==
  [pc |-> "idle", frame |-> [kind |-> "data", retry |-> FALSE, auth |-> NoHeader],
   posted |-> AbsentItem, refreshed |-> FALSE, loggedOut |-> FALSE]

\* user is null: nobody is logged in.
NoRole == "absent"
Roles == {"admin", "user", NoRole}

InitialProgress == [isActive |-> FALSE, status |-> "", progress |-> 0, message |-> ""]
StartingProgress ==
  [isActive |-> TRUE, status |-> "starting", progress |-> 0, message |-> "Initializing rebuild..."]
NoToast == [title |-> "", description |-> ""]
NoResponse == [ok |-> FALSE, body |-> FALSE, statusText |-> "none"]

Init ==
  /\ op = "none" /\ pc = "idle" /\ response = NoResponse
  /\ wire = <<>> /\ closed = FALSE /\ sent = <<>> /\ nframes = 0
  /\ calls = <<>> /\ outcome = NoOutcome /\ error = ""
  /\ readerAcquired = 0 /\ readerReleased = 0 /\ fetches = 0
  /\ readsAfterTerminal = 0 /\ cut = FALSE
  /\ refCalls = <<>> /\ refReturned = FALSE /\ refOutcome = NoOutcome
  /\ isLoading = FALSE /\ rebuildProgress = InitialProgress
  /\ toast = NoToast /\ uiPc = "idle" /\ result = NoOutcome /\ inFlight = 0
  /\ qWhich = "none" /\ qFilters = NoFilters /\ qUrl = <<>>
  /\ storage = EmptyStorage /\ pathname = LoginPath
  /\ stack = <<>> /\ callKind = "none" /\ callPc = "idle" /\ callData = NoData
  /\ sends = 0 /\ refreshes = 0 /\ lastSend = NoSend /\ lastReply = NoReply
  /\ lastRefreshed = NoPair /\ refreshFailed = FALSE /\ hrefAssigned = FALSE
  /\ user = NoUser /\ authLoading = TRUE /\ authPc = "mounting" /\ authToast = ""
  /\ loginData = NoPair /\ loginResult = "none" /\ initResult = "pending"
  /\ role = "admin" /\ statsFetch = "none"
  /\ flights = [i \in Requests |-> IdleFlight]
  /\ serverRefresh = AbsentItem /\ refreshLog = <<>>
  /\ messages = <<>> /\ chatLoading = FALSE /\ input = <<>> /\ sources = "none"
  /\ conversationId = NoConversation /\ chatPending = <<>>
  /\ historyPending = NoConversation /\ chatToast = "" /\ now = 1
  /\ listAtSend = <<>> /\ replaced = FALSE

\* ---------------------------------------------------------------- the call
Busy == pc \in {"requesting", "streaming"}
Settled == pc \in {"resolved", "rejected"}

\* A terminal event is among the events handed to the rebuild callback.
TerminalDelivered ==
  op = "rebuild" /\ \E i \in DOMAIN calls : calls[i].status \in {"completed", "failed"}

\* The call starts: everything up to and including fetch(...).
BeginCall(o) ==
  /\ op' = o /\ pc' = "requesting" /\ response' = NoResponse
  /\ wire' = <<>> /\ closed' = FALSE /\ sent' = <<>> /\ nframes' = 0
  /\ calls' = <<>> /\ outcome' = NoOutcome /\ error' = ""
  /\ readerAcquired' = 0 /\ readerReleased' = 0 /\ fetches' = 1
  /\ readsAfterTerminal' = 0 /\ cut' = FALSE
  /\ refCalls' = <<>> /\ refReturned' = FALSE /\ refOutcome' = NoOutcome

\* The caller has taken the call's result: nothing of the call is left.
ClearCall ==
  /\ op' = "none" /\ pc' = "idle" /\ response' = NoResponse
  /\ wire' = <<>> /\ closed' = FALSE /\ sent' = <<>> /\ nframes' = 0
  /\ calls' = <<>> /\ outcome' = NoOutcome /\ error' = ""
  /\ readerAcquired' = 0 /\ readerReleased' = 0 /\ fetches' = 0
  /\ readsAfterTerminal' = 0 /\ cut' = FALSE
  /\ refCalls' = <<>> /\ refReturned' = FALSE /\ refOutcome' = NoOutcome

\* `Rebuild failed: ${response.statusText}` / `Upload failed: ${response.statusText}`
NotOkMessage(o, statusText) ==
  IF o = "rebuild" THEN "Rebuild failed: " \o statusText ELSE "Upload failed: " \o statusText

StatusTexts == {"Internal Server Error", "Bad Request"}

\* The call rejects with an Error carrying msg.
Reject(msg) ==
  /\ pc' = "rejected" /\ error' = msg
  /\ inFlight' = IF op = "rebuild" /\ inFlight > 0 THEN inFlight - 1 ELSE inFlight

\* The call resolves with out.
Resolve(out) ==
  /\ pc' = "resolved" /\ outcome' = out
  /\ inFlight' = IF op = "rebuild" /\ inFlight > 0 THEN inFlight - 1 ELSE inFlight

\* The responses fetch() can resolve with.
Responses ==
  {[ok |-> TRUE, body |-> b, statusText |-> "OK"] : b \in BOOLEAN}
    \cup {[ok |-> FALSE, body |-> b, statusText |-> st] : b \in BOOLEAN, st \in StatusTexts}

\* The ok check left out.
CheckResponseSkipsOk(o, resp) == IF ~resp.body THEN "No response body" ELSE ""

\* The body check left out.
CheckResponseSkipsBody(o, resp) == IF ~resp.ok THEN NotOkMessage(o, resp.statusText) ELSE ""

\* The two checks after the fetch: the message of the Error thrown, "" when
\* none is thrown and the reader is taken.
CheckResponse(o, resp) ==
  IF ~resp.ok THEN NotOkMessage(o, resp.statusText)
  ELSE IF ~resp.body THEN "No response body"
  ELSE ""

\* fetch() rejects: the request never got a response.
FetchFails ==
  /\ UNCHANGED notStreamVars
  /\ UNCHANGED cut
  /\ pc = "requesting"
  /\ Reject("Failed to fetch")
  /\ UNCHANGED <<op, response, wire, closed, sent, nframes, calls, outcome,
                 readerAcquired, readerReleased, fetches, readsAfterTerminal,
                 refCalls, refReturned, refOutcome, uiVars>>

\* A client that asks once more after a response it cannot use.
RetriesOnce == 0 + 1

\* How many times a streaming operation issues its request again after a
\* response it cannot use: the checks throw and nothing loops back to fetch().
Retries == 0

\* fetch() resolves with a response: the ok check, the body check, getReader().
FetchResolves ==
  /\ UNCHANGED notStreamVars
  /\ UNCHANGED cut
  /\ pc = "requesting"
  /\ \E resp \in Responses :
       /\ response' = resp
       /\ IF CheckResponse(op, resp) # "" /\ fetches <= Retries
          THEN /\ fetches' = fetches + 1
               /\ UNCHANGED <<pc, error, inFlight, readerAcquired>>
          ELSE IF CheckResponse(op, resp) # ""
          THEN /\ Reject(CheckResponse(op, resp))
               /\ UNCHANGED <<readerAcquired, fetches>>
          ELSE /\ pc' = "streaming"
               /\ readerAcquired' = readerAcquired + 1
               /\ UNCHANGED <<error, inFlight, fetches>>
  /\ UNCHANGED <<op, wire, closed, sent, nframes, calls, outcome, readerReleased,
                 readsAfterTerminal, refCalls, refReturned, refOutcome, uiVars>>

\* ---------------------------------------------------------------- the server
Frames == {EventFrame(t) : t \in JsonTexts} \cup {BadFrame}

\* The events of a frame: one for an event frame, none otherwise.
FrameEvents(f) == IF Len(f) = 3 /\ f[2] \in JsonTexts THEN <<EventOf(f[2])>> ELSE <<>>

ServerEmit ==
  /\ UNCHANGED notStreamVars
  /\ UNCHANGED cut
  /\ pc = "streaming" /\ ~closed /\ nframes < MaxFrames
  /\ \E f \in Frames :
       /\ wire' = wire \o f
       /\ sent' = sent \o FrameEvents(f)
  /\ nframes' = nframes + 1
  /\ UNCHANGED <<op, pc, response, closed, calls, outcome, error, readerAcquired, readerReleased,
                 fetches, readsAfterTerminal, refCalls, refReturned, refOutcome,
                 uiVars, inFlight>>

ServerClose ==
  /\ UNCHANGED notStreamVars
  /\ UNCHANGED cut
  /\ pc = "streaming" /\ ~closed
  /\ closed' = TRUE
  /\ UNCHANGED <<op, pc, response, wire, sent, nframes, calls, outcome, error, readerAcquired,
                 readerReleased, fetches, readsAfterTerminal, refCalls, refReturned,
                 refOutcome, uiVars, inFlight>>

\* ------------------------------------------------------------ SettingsPage
\* The onProgress callback SettingsPage passes: setRebuildProgress(prev => ...).
OnProgressUI(prev, data) ==
  [prev EXCEPT !.status = data.status, !.progress = data.progress, !.message = data.message]

RECURSIVE ApplyProgress(_, _)
ApplyProgress(prev, evs) ==
  IF evs = <<>> THEN prev ELSE ApplyProgress(OnProgressUI(prev, Head(evs)), Tail(evs))

\* The button without its disabled attribute.
TriggerAlwaysEnabled(loading, progress) == TRUE

\* disabled={isLoading || rebuildProgress.isActive}
TriggerEnabled(loading, progress) == ~(loading \/ progress.isActive)

\* result.data?.error
DataError(data) == IF "error" \in DOMAIN data THEN data.error ELSE "undefined"

\* result.data?.error || 'Rebuild failed'
FailureMessage(data) ==
  IF DataError(data) \notin {"undefined", ""} THEN DataError(data) ELSE "Rebuild failed"

\* error.message || "Failed to rebuild vector store"
ErrorDescription(msg) == IF msg # "" THEN msg ELSE "Failed to rebuild vector store"

\* ------------------------------------------------------------- the stream
\* The finally block left out: the lock is kept.
ReleaseLockSkipped(released) == released

\* finally { reader.releaseLock() }: the releases made so far, and this one.
ReleaseLock(released) == released + 1

\* The loop body of the operation o over one chunk.
LoopOver(o, chunk, delivered) ==
  IF o = "rebuild" THEN RebuildChunk(chunk, delivered) ELSE UploadChunk(chunk, delivered)

\* The value the operation o returns after the loop, when the stream is done.
AfterLoop(o) == IF o = "rebuild" THEN FallbackOutcome ELSE UploadOutcome

\* reader.read() yields a chunk: the first k tokens of the pending text.  The
\* whole for-loop over its lines runs, with the callbacks it makes.
Read ==
  /\ UNCHANGED notStreamVars
  /\ pc = "streaming" /\ wire # <<>>
  /\ \E k \in 1..Len(wire) :
       LET chunk == SubSeq(wire, 1, k)
           r == LoopOver(op, chunk, calls)
           fresh == SubSeq(r.calls, Len(calls) + 1, Len(r.calls))
           ref == RebuildLines(WithoutMalformed(SplitLines(chunk)), 1, refCalls)
       IN /\ wire' = SubSeq(wire, k + 1, Len(wire))
          /\ cut' = (cut \/ chunk[k] # "N")
          /\ calls' = r.calls
          /\ readsAfterTerminal' =
               IF TerminalDelivered THEN readsAfterTerminal + 1 ELSE readsAfterTerminal
          /\ IF r.threw
             THEN /\ Reject("SyntaxError")
                  /\ readerReleased' = ReleaseLock(readerReleased)
                  /\ UNCHANGED outcome
             ELSE IF r.returned
             THEN /\ Resolve(r.outcome)
                  /\ readerReleased' = ReleaseLock(readerReleased)
                  /\ UNCHANGED error
             ELSE UNCHANGED <<pc, outcome, error, readerReleased, inFlight>>
          /\ IF op = "rebuild" /\ ~refReturned
             THEN /\ refCalls' = ref.calls
                  /\ refReturned' = ref.returned
                  /\ refOutcome' = ref.outcome
             ELSE UNCHANGED <<refCalls, refReturned, refOutcome>>
          /\ rebuildProgress' =
               IF op = "rebuild" THEN ApplyProgress(rebuildProgress, fresh)
               ELSE rebuildProgress
  /\ UNCHANGED <<op, response, closed, sent, nframes, readerAcquired, fetches,
                 isLoading, toast, uiPc, result>>

\* reader.read() yields done: break, finally releaseLock(), the return after
\* the loop.
ReadDone ==
  /\ UNCHANGED notStreamVars
  /\ UNCHANGED cut
  /\ pc = "streaming" /\ wire = <<>> /\ closed
  /\ Resolve(AfterLoop(op))
  /\ readerReleased' = ReleaseLock(readerReleased)
  /\ readsAfterTerminal' =
       IF TerminalDelivered THEN readsAfterTerminal + 1 ELSE readsAfterTerminal
  /\ IF op = "rebuild" /\ ~refReturned
     THEN /\ refReturned' = TRUE
          /\ refOutcome' = AfterLoop(op)
          /\ UNCHANGED refCalls
     ELSE UNCHANGED <<refCalls, refReturned, refOutcome>>
  /\ UNCHANGED <<op, response, wire, closed, sent, nframes, calls, error, readerAcquired,
                 fetches, uiVars>>

\* reader.read() rejects (the connection broke): finally releaseLock(), and
\* the exception leaves the operation.
ReadFails ==
  /\ UNCHANGED notStreamVars
  /\ UNCHANGED cut
  /\ pc = "streaming"
  /\ Reject("network error")
  /\ readerReleased' = ReleaseLock(readerReleased)
  /\ readsAfterTerminal' =
       IF TerminalDelivered THEN readsAfterTerminal + 1 ELSE readsAfterTerminal
  /\ UNCHANGED <<op, response, wire, closed, sent, nframes, calls, outcome, readerAcquired,
                 fetches, refCalls, refReturned, refOutcome, uiVars>>

\* ------------------------------------------------- SettingsPage operations
\* The finally block left out: isLoading stays as the try block set it.
FinallyIsLoadingKept == TRUE

\* finally { setIsLoading(false) }: the value isLoading has after it.
FinallyIsLoading == FALSE

\* The guard left out: the page renders for everybody.
AdminViewAlways(r) == TRUE

\* if (!user || user.role !== 'admin') return the access-denied view: what
\* follows the guard, the mount effect and the buttons, exists for r only
\* when this holds.
AdminView(r) == r = "admin"

\* A click on the Rebuild Store button: rebuildVectorStore up to its await.
Click ==
  /\ UNCHANGED notStreamVars
  /\ AdminView(role)
  /\ TriggerEnabled(isLoading, rebuildProgress)
  /\ op # "upload"
  /\ isLoading' = TRUE
  /\ rebuildProgress' = StartingProgress
  /\ toast' = NoToast
  /\ uiPc' = "awaiting"
  /\ result' = NoOutcome
  /\ BeginCall("rebuild")
  /\ inFlight' = inFlight + 1

\* rebuildVectorStore after the await, when the call resolved.
UiResolved ==
  /\ UNCHANGED notStreamVars
  /\ uiPc = "awaiting" /\ op = "rebuild" /\ pc = "resolved"
  /\ IF outcome.success
     THEN /\ rebuildProgress' =
               [rebuildProgress EXCEPT !.isActive = FALSE, !.status = "completed",
                                       !.progress = 100]
          /\ toast' = [title |-> "Rebuild Completed",
                       description |-> "Vector store rebuild completed successfully!"]
          /\ uiPc' = "refreshing"
          /\ UNCHANGED isLoading
     ELSE /\ rebuildProgress' =
               [rebuildProgress EXCEPT !.isActive = FALSE, !.status = "failed"]
          /\ toast' = [title |-> "Error",
                       description |-> ErrorDescription(FailureMessage(outcome.data))]
          /\ isLoading' = FinallyIsLoading
          /\ uiPc' = "idle"
  /\ result' = outcome
  /\ ClearCall
  /\ UNCHANGED inFlight

\* rebuildVectorStore after the await, when the call rejected: catch, finally.
UiRejected ==
  /\ UNCHANGED notStreamVars
  /\ uiPc = "awaiting" /\ op = "rebuild" /\ pc = "rejected"
  /\ rebuildProgress' = [rebuildProgress EXCEPT !.isActive = FALSE, !.status = "failed"]
  /\ toast' = [title |-> "Error", description |-> ErrorDescription(error)]
  /\ isLoading' = FinallyIsLoading
  /\ uiPc' = "idle"
  /\ result' = NoOutcome
  /\ ClearCall
  /\ UNCHANGED inFlight

\* await fetchBackupStats() settles (it catches its own failure and toasts),
\* then finally setIsLoading(false).
StatsSettled ==
  /\ UNCHANGED notStreamVars
  /\ uiPc = "refreshing"
  /\ \E ok \in BOOLEAN :
       toast' = IF ok THEN toast
                ELSE [title |-> "Error", description |-> "Failed to fetch backup statistics"]
  /\ isLoading' = FinallyIsLoading
  /\ uiPc' = "idle"
  /\ UNCHANGED <<callVars, rebuildProgress, inFlight, result>>

\* DocumentList.uploadDocument starts apiClient.uploadDocument(file, onProgress).
\* The upload is issued from the documents page: SettingsPage is not showing a
\* rebuild then, its state is the one it mounts with.
StartUpload ==
  /\ UNCHANGED notStreamVars
  /\ op = "none" /\ uiPc = "idle"
  /\ isLoading = FALSE /\ rebuildProgress = InitialProgress /\ toast = NoToast
  /\ BeginCall("upload")
  /\ UNCHANGED <<uiVars, inFlight>>

\* DocumentList.uploadDocument after the await, resolved or rejected.
UploadSettled ==
  /\ UNCHANGED notStreamVars
  /\ op = "upload" /\ Settled
  /\ ClearCall
  /\ UNCHANGED <<uiVars, inFlight>>

Next ==
  \/ Click
  \/ StartUpload
  \/ UploadSettled
  \/ FetchFails
  \/ FetchResolves
  \/ ServerEmit
  \/ ServerClose
  \/ Read
  \/ ReadDone
  \/ ReadFails
  \/ UiResolved
  \/ UiRejected
  \/ StatsSettled

Spec == Init /\ [][Next]_vars

\* ------------------------------------------- SettingsPage and the session
\* fetchBackupStats() run by the mount effect or by the Refresh Stats button,
\* to its end: the request, then setBackupStats or the toast of the catch
\* block.
FetchStats ==
  /\ UNCHANGED <<streamVars, queryVars, authVars, parallelVars, chatVars, role>>
  /\ AdminView(role)
  /\ statsFetch' \in {"ok", "failed"}

\* The admin of the page stops being one while the page is up: logout()
\* sets user to null, refetchUser() sets the user the server now returns.
SessionEnds ==
  /\ UNCHANGED <<streamVars, queryVars, authVars, parallelVars, chatVars, statsFetch>>
  /\ role = "admin"
  /\ role' \in Roles \ {"admin"}

\* The steps of SettingsPage and of the rebuild it awaits.
NextAdmin ==
  \/ Click
  \/ FetchFails
  \/ FetchResolves
  \/ ServerEmit
  \/ ServerClose
  \/ Read
  \/ ReadDone
  \/ ReadFails
  \/ UiResolved
  \/ UiRejected
  \/ StatsSettled
  \/ FetchStats
  \/ SessionEnds

SpecAdmin == Init /\ [][NextAdmin]_vars

\* The continuation of a settled promise always runs, and the statistics
\* request (an axios request with a timeout) always settles.
FairSpec ==
  /\ Init /\ [][Next]_vars
  /\ WF_vars(UiResolved) /\ WF_vars(UiRejected) /\ WF_vars(StatsSettled)

\* ------------------------------------------------- the rebuild urls alone
\* rebuildVectorStore(filters) or rebuildVectorStoreWithProgress(filters, ...)
\* is called and builds the url it requests.
BuildUrl ==
  /\ qWhich = "none"
  /\ \E which \in {"rebuild", "stream"}, filters \in FilterInputs :
       /\ qWhich' = which
       /\ qFilters' = filters
       /\ qUrl' = UrlFor(PathOf(which), filters)
  /\ UNCHANGED <<streamVars, authVars, pageVars, parallelVars, chatVars>>

\* The call is over; the next one starts afresh.
UrlCallEnds ==
  /\ qWhich # "none"
  /\ qWhich' = "none" /\ qFilters' = NoFilters /\ qUrl' = <<>>
  /\ UNCHANGED <<streamVars, authVars, pageVars, parallelVars, chatVars>>

NextQuery == BuildUrl \/ UrlCallEnds

SpecQuery == Init /\ [][NextQuery]_vars

\* ------------------------------------------------------- the axios client
callFields == <<stack, callKind, callPc, callData, sends, refreshes, lastSend, lastReply,
                lastRefreshed, refreshFailed, hrefAssigned>>

\* this.client.get/post(...): the request interceptor runs and the request is
\* sent, with localStorage being st.
StartCall(kind, st) ==
  /\ callKind' = kind /\ callPc' = "pending" /\ callData' = NoData
  /\ stack' = <<NewFrame(kind, st)>>
  /\ sends' = 1 /\ refreshes' = 0
  /\ lastSend' = [kind |-> kind, auth |-> NewFrame(kind, st).auth, token |-> st.access_token]
  /\ lastReply' = NoReply /\ lastRefreshed' = NoPair
  /\ refreshFailed' = FALSE /\ hrefAssigned' = FALSE

\* The caller has taken the result of the call.
EndCall ==
  /\ callKind' = "none" /\ callPc' = "idle" /\ callData' = NoData
  /\ stack' = <<>> /\ sends' = 0 /\ refreshes' = 0
  /\ lastSend' = NoSend /\ lastReply' = NoReply /\ lastRefreshed' = NoPair
  /\ refreshFailed' = FALSE /\ hrefAssigned' = FALSE

\* refreshToken() threw inside the response interceptor: the catch block
\* (logout, redirect unless on the login page) and Promise.reject(error), in
\* every interceptor that was waiting for it.
RefreshThrew ==
  /\ storage' = ApiLogout(storage)
  /\ hrefAssigned' = (hrefAssigned \/ pathname # LoginPath)
  /\ pathname' = LoginPath
  /\ refreshFailed' = TRUE
  /\ callPc' = "rejected" /\ stack' = <<>>

\* The request on top is answered 2xx.  The original request: the call
\* resolves.  A refresh request: refreshToken() stores the tokens and the
\* interceptor that awaited it sends its own request again.
ReplyOk ==
  /\ UNCHANGED notAuthVars
  /\ callPc = "pending"
  /\ LET depth == Len(stack)
         top == stack[depth]
     IN \E data \in DataFor(top.kind) :
          IF depth = 1
          THEN /\ callPc' = "resolved" /\ callData' = data /\ stack' = <<>>
               /\ lastReply' = [status |-> 200, n |-> sends]
               /\ UNCHANGED <<storage, pathname, callKind, sends, refreshes, lastSend,
                              lastRefreshed, refreshFailed, hrefAssigned>>
          ELSE LET st == StoreTokens(storage, data.pair)
                   token == st.access_token
                   parent == stack[depth - 1]
                   again == [parent EXCEPT !.auth = RequestInterceptor(Bearer(token), token)]
               IN /\ storage' = st
                  /\ lastRefreshed' = data.pair
                  /\ stack' = Append(SubSeq(stack, 1, depth - 2), again)
                  /\ lastSend' = [kind |-> parent.kind, auth |-> again.auth, token |-> token]
                  /\ sends' = IF depth = 2 THEN sends + 1 ELSE sends
                  /\ refreshes' = IF depth > 2 THEN refreshes + 1 ELSE refreshes
                  /\ UNCHANGED <<pathname, callKind, callPc, callData, lastReply,
                                 refreshFailed, hrefAssigned>>
  /\ UNCHANGED providerVars

\* The request on top is answered 401 and its _retry flag is not set: the flag
\* is set and refreshToken() is called, which throws without a refresh token
\* and posts to /rag/auth/refresh otherwise.
ReplyUnauthorized ==
  /\ UNCHANGED notAuthVars
  /\ callPc = "pending"
  /\ LET depth == Len(stack)
         top == stack[depth]
     IN /\ ~top.retry
        /\ depth > 1 => depth <= MaxRefreshDepth
        /\ lastReply' = IF depth = 1 THEN [status |-> 401, n |-> sends] ELSE lastReply
        /\ IF storage.refresh_token = AbsentItem
           THEN /\ RefreshThrew
                /\ UNCHANGED <<callKind, callData, sends, refreshes, lastSend, lastRefreshed>>
           ELSE /\ stack' = Append([stack EXCEPT ![depth] = MarkRetry(top)],
                                   NewFrame("refresh", storage))
                /\ refreshes' = refreshes + 1
                /\ lastSend' = [kind |-> "refresh", auth |-> NewFrame("refresh", storage).auth,
                                token |-> storage.access_token]
                /\ UNCHANGED <<storage, pathname, callKind, callPc, callData, sends,
                               lastRefreshed, refreshFailed, hrefAssigned>>
  /\ UNCHANGED providerVars

\* The request on top fails for good: 401 with the _retry flag set, or any
\* other failure.  The original request: the call rejects.  A refresh request:
\* refreshToken() throws.
ReplyError ==
  /\ UNCHANGED notAuthVars
  /\ callPc = "pending"
  /\ LET depth == Len(stack)
         top == stack[depth]
     IN \E status \in Statuses \ {200} :
          /\ status = 401 => top.retry
          /\ IF depth = 1
             THEN /\ callPc' = "rejected" /\ stack' = <<>>
                  /\ lastReply' = [status |-> status, n |-> sends]
                  /\ UNCHANGED <<storage, pathname, refreshFailed, hrefAssigned>>
             ELSE /\ RefreshThrew
                  /\ UNCHANGED lastReply
  /\ UNCHANGED <<callKind, callData, sends, refreshes, lastSend, lastRefreshed>>
  /\ UNCHANGED providerVars

\* ------------------------------------------- axios requests side by side
\* What the steps of the requests under way side by side leave alone.
notParallelVars ==
  <<streamVars, queryVars, pageVars, chatVars, providerVars, stack, callKind, callPc, callData,
    sends, refreshes, lastSend, lastReply, lastRefreshed, refreshFailed, hrefAssigned>>

\* A login has stored its tokens: the session the requests are made in.
SessionStored ==
  /\ UNCHANGED notParallelVars
  /\ storage = EmptyStorage /\ serverRefresh = AbsentItem
  /\ \E data \in TokenPairs :
       /\ storage' = StoreLogin(storage, data)
       /\ serverRefresh' = data.refresh_token
  /\ UNCHANGED <<pathname, flights, refreshLog>>

\* this.client.get(...) for request i: the request interceptor, and the
\* request is sent.
ParSend(i) ==
  /\ UNCHANGED notParallelVars
  /\ flights[i].pc = "idle"
  /\ flights' = [flights EXCEPT ![i].pc = "sent", ![i].frame = NewFrame("data", storage)]
  /\ UNCHANGED <<storage, pathname, serverRefresh, refreshLog>>

\* Request i is answered 2xx.
ParReplyOk(i) ==
  /\ UNCHANGED notParallelVars
  /\ flights[i].pc = "sent"
  /\ flights' = [flights EXCEPT ![i].pc = "resolved"]
  /\ UNCHANGED <<storage, pathname, serverRefresh, refreshLog>>

\* Request i is answered 401 with its _retry flag unset: the flag is set and
\* refreshToken() runs up to its post, or throws for want of a refresh token.
ParReplyUnauthorized(i) ==
  /\ UNCHANGED notParallelVars
  /\ flights[i].pc = "sent" /\ ~flights[i].frame.retry
  /\ IF storage.refresh_token = AbsentItem
     THEN /\ storage' = ApiLogout(storage)
          /\ pathname' = LoginPath
          /\ flights' = [flights EXCEPT ![i].pc = "rejected",
                                         ![i].frame = MarkRetry(flights[i].frame),
                                         ![i].loggedOut = TRUE]
          /\ UNCHANGED refreshLog
     ELSE /\ flights' = [flights EXCEPT ![i].pc = "refreshing",
                                         ![i].frame = MarkRetry(flights[i].frame),
                                         ![i].posted = storage.refresh_token]
          /\ refreshLog' = Append(refreshLog, storage.refresh_token)
          /\ UNCHANGED <<storage, pathname>>
  /\ UNCHANGED serverRefresh

\* Request i fails for good: 401 with the _retry flag set, or another failure.
ParReplyError(i) ==
  /\ UNCHANGED notParallelVars
  /\ flights[i].pc = "sent"
  /\ \E status \in Statuses \ {200} :
       /\ status = 401 => flights[i].frame.retry
       /\ flights' = [flights EXCEPT ![i].pc = "rejected"]
  /\ UNCHANGED <<storage, pathname, serverRefresh, refreshLog>>

\* The refresh request of i is answered 2xx, which the server does for the
\* refresh token it accepts, replacing it: refreshToken() stores the tokens
\* and the interceptor sends request i again.
ParRefreshOk(i) ==
  /\ UNCHANGED notParallelVars
  /\ flights[i].pc = "refreshing" /\ flights[i].posted = serverRefresh
  /\ \E data \in TokenPairs :
       /\ data.refresh_token # serverRefresh
       /\ serverRefresh' = data.refresh_token
       /\ LET st == StoreTokens(storage, data)
              token == st.access_token
          IN /\ storage' = st
             /\ flights' =
                  [flights EXCEPT ![i].pc = "sent",
                                  ![i].frame.auth = RequestInterceptor(Bearer(token), token),
                                  ![i].refreshed = TRUE]
  /\ UNCHANGED <<pathname, refreshLog>>

\* The refresh request of i fails with something other than 401 (what a
\* refresh token no longer accepted gets, or any other failure): refreshToken()
\* throws, the catch block logs out and redirects, request i rejects.
ParRefreshFails(i) ==
  /\ UNCHANGED notParallelVars
  /\ flights[i].pc = "refreshing"
  /\ storage' = ApiLogout(storage)
  /\ pathname' = LoginPath
  /\ flights' = [flights EXCEPT ![i].pc = "rejected", ![i].loggedOut = TRUE]
  /\ UNCHANGED <<serverRefresh, refreshLog>>

NextParallel ==
  \/ SessionStored
  \/ \E i \in Requests :
       \/ ParSend(i)
       \/ ParReplyOk(i)
       \/ ParReplyUnauthorized(i)
       \/ ParReplyError(i)
       \/ ParRefreshOk(i)
       \/ ParRefreshFails(i)

SpecParallel == Init /\ [][NextParallel]_vars

\* ------------------------------------------------------------ ChatInterface
\* What the steps of ChatInterface and ChatPage leave alone.
notChatVars == <<streamVars, queryVars, authVars, pageVars, parallelVars>>

\* onChange of the input, which is disabled while isLoading.
ChatType ==
  /\ UNCHANGED notChatVars
  /\ ~chatLoading
  /\ \E text \in InputStrings : input' = text
  /\ UNCHANGED <<messages, chatLoading, sources, conversationId, chatPending,
                 historyPending, chatToast, now, listAtSend, replaced>>

\* Time passes.
ChatTick ==
  /\ UNCHANGED notChatVars
  /\ now < MaxClock
  /\ now' = now + 1
  /\ UNCHANGED <<messages, chatLoading, input, sources, conversationId, chatPending,
                 historyPending, chatToast, listAtSend, replaced>>

\* sendMessage() is called, by Enter or by the button: the guard, then
\* everything up to the await of apiClient.sendMessage.
ChatSend ==
  /\ UNCHANGED notChatVars
  /\ Len(messages) < MaxMessages
  /\ IF SendBlocked(input, chatLoading)
     THEN UNCHANGED chatVars
     ELSE LET userMessage == [id |-> now, role |-> "user", content |-> Trim(input)]
              request == [message |-> MessageOf(input), conversation_id |-> conversationId,
                          max_chunks |-> 5]
          IN /\ messages' = Append(messages, userMessage)
             /\ input' = <<>>
             /\ chatLoading' = TRUE
             /\ sources' = "none"
             /\ chatPending' = Append(chatPending,
                                      [request |-> request, userMessage |-> userMessage,
                                       input |-> input, conversationId |-> conversationId])
             /\ listAtSend' = messages
             /\ replaced' = FALSE
             /\ UNCHANGED <<conversationId, historyPending, chatToast, now>>

\* The request of the k-th waiting run resolves: the try block after the
\* await, ChatPage.handleConversationCreated when it is called, and finally.
ChatResolved ==
  /\ UNCHANGED notChatVars
  /\ \E k \in DOMAIN chatPending, data \in ChatReplies :
       LET run == chatPending[k]
           assistantMessage ==
             [id |-> data.message_id, role |-> "assistant", content |-> data.message]
           created == run.conversationId = NoConversation
                        /\ data.conversation_id # NoConversation
       IN /\ messages' = ConfirmAndAppend(messages, run.userMessage, now + 1, assistantMessage)
          /\ sources' = data.sources
          /\ conversationId' = IF created THEN data.conversation_id ELSE conversationId
          /\ historyPending' = IF created /\ data.conversation_id # conversationId
                                THEN data.conversation_id ELSE historyPending
          /\ chatPending' = Without(chatPending, k)
  /\ chatLoading' = FALSE
  /\ UNCHANGED <<input, chatToast, now, listAtSend, replaced>>

\* The request of the k-th waiting run rejects: the catch block and finally.
ChatRejected ==
  /\ UNCHANGED notChatVars
  /\ \E k \in DOMAIN chatPending :
       /\ messages' = RemoveTemporary(messages, chatPending[k].userMessage.id)
       /\ chatPending' = Without(chatPending, k)
  /\ chatToast' = "Failed to send message"
  /\ chatLoading' = FALSE
  /\ UNCHANGED <<input, sources, conversationId, historyPending, now, listAtSend, replaced>>

\* ChatPage.handleConversationSelect / handleNewConversation: the prop of
\* ChatInterface changes and its history effect runs up to its await, or to
\* its end for a new conversation.
ChatSelect ==
  /\ UNCHANGED notChatVars
  /\ \E c \in (Conversations \cup {NoConversation}) \ {conversationId} :
       /\ conversationId' = c
       /\ IF c = NoConversation
          THEN /\ messages' = <<>> /\ sources' = "none" /\ replaced' = TRUE
               /\ historyPending' = NoConversation
          ELSE /\ historyPending' = c
               /\ UNCHANGED <<messages, sources, replaced>>
  /\ UNCHANGED <<chatLoading, input, chatPending, chatToast, now, listAtSend>>

\* getConversation settles: the history effect after its await.
ChatHistoryLoaded ==
  /\ UNCHANGED notChatVars
  /\ historyPending # NoConversation
  /\ \/ \E history \in Histories :
          /\ messages' = history
          /\ sources' = "none"
          /\ replaced' = TRUE
     \/ UNCHANGED <<messages, sources, replaced>>
  /\ historyPending' = NoConversation
  /\ UNCHANGED <<chatLoading, input, conversationId, chatPending, chatToast, now, listAtSend>>

NextChat ==
  \/ ChatType
  \/ ChatTick
  \/ ChatSend
  \/ ChatResolved
  \/ ChatRejected
  \/ ChatSelect
  \/ ChatHistoryLoaded

SpecChat == Init /\ [][NextChat]_vars

\* ------------------------------------------------------------ AuthProvider
\* The value isLoading is left with: true.
InitAuthIsLoadingKept == TRUE

\* setIsLoading(false) at the end of initAuth.
InitAuthIsLoading == FALSE

\* The effect of AuthProvider runs initAuth up to its await.
InitAuth ==
  /\ UNCHANGED notAuthVars
  /\ authPc = "mounting" /\ callPc = "idle"
  /\ IF storage.access_token # AbsentItem /\ storage.user # <<>>
     THEN /\ user' = JSONparseUser(storage.user)
          /\ StartCall("profile", storage)
          /\ authPc' = "validating"
          /\ UNCHANGED <<authLoading, initResult>>
     ELSE /\ authLoading' = InitAuthIsLoading
          /\ authPc' = "ready"
          /\ initResult' = "skipped"
          /\ UNCHANGED <<user, callFields>>
  /\ UNCHANGED <<storage, pathname, authToast, loginData, loginResult>>

\* initAuth after getUserProfile() resolved.
InitAuthValidated ==
  /\ UNCHANGED notAuthVars
  /\ authPc = "validating" /\ callPc = "resolved"
  /\ authLoading' = InitAuthIsLoading
  /\ authPc' = "ready"
  /\ initResult' = "valid"
  /\ EndCall
  /\ UNCHANGED <<storage, pathname, user, authToast, loginData, loginResult>>

\* initAuth after getUserProfile() rejected: the catch block calls logout().
InitAuthFailed ==
  /\ UNCHANGED notAuthVars
  /\ authPc = "validating" /\ callPc = "rejected"
  /\ storage' = ApiLogout(storage)
  /\ user' = NoUser
  /\ authToast' = "Logged out"
  /\ authLoading' = InitAuthIsLoading
  /\ authPc' = "ready"
  /\ initResult' = "invalid"
  /\ EndCall
  /\ UNCHANGED <<pathname, loginData, loginResult>>

\* login(email, password) up to its first await.
LoginStart ==
  /\ UNCHANGED notAuthVars
  /\ authPc = "ready" /\ callPc = "idle"
  /\ authLoading' = TRUE
  /\ StartCall("login", storage)
  /\ authPc' = "login_post"
  /\ loginData' = NoPair
  /\ loginResult' = "pending"
  /\ UNCHANGED <<storage, pathname, user, authToast, initResult>>

\* login after apiClient.login resolved: the tokens are stored and the profile
\* is asked for.
LoginPosted ==
  /\ UNCHANGED notAuthVars
  /\ authPc = "login_post" /\ callPc = "resolved"
  /\ loginData' = callData.pair
  /\ storage' = StoreLogin(storage, callData.pair)
  /\ StartCall("profile", StoreLogin(storage, callData.pair))
  /\ authPc' = "login_profile"
  /\ UNCHANGED <<pathname, user, authLoading, authToast, loginResult, initResult>>

\* login after getUserProfile() resolved, to its end.
LoginProfiled ==
  /\ UNCHANGED notAuthVars
  /\ authPc = "login_profile" /\ callPc = "resolved"
  /\ storage' = [storage EXCEPT !.user = Stringify(callData.user)]
  /\ user' = callData.user
  /\ authToast' = "Welcome back!"
  /\ authLoading' = FALSE
  /\ loginResult' = "resolved"
  /\ authPc' = "ready"
  /\ EndCall
  /\ UNCHANGED <<pathname, loginData, initResult>>

\* login after either request rejected: catch (toast, throw) and finally.
LoginFailed ==
  /\ UNCHANGED notAuthVars
  /\ authPc \in {"login_post", "login_profile"} /\ callPc = "rejected"
  /\ authToast' = "Login failed"
  /\ authLoading' = FALSE
  /\ loginResult' = "rejected"
  /\ authPc' = "ready"
  /\ EndCall
  /\ UNCHANGED <<storage, pathname, user, loginData, initResult>>

\* The Log out item of the dashboard layout: logout(), then
\* navigate('/auth/login').
Logout ==
  /\ UNCHANGED notAuthVars
  /\ authPc \in {"ready", "validating"}
  /\ storage' = ApiLogout(storage)
  /\ user' = NoUser
  /\ authToast' = "Logged out"
  /\ pathname' = LoginPath
  /\ UNCHANGED <<callFields, authLoading, authPc, loginData, loginResult, initResult>>

\* Some page asks for data through the axios client (getDocuments, ...).
DataCall ==
  /\ UNCHANGED notAuthVars
  /\ authPc = "ready" /\ callPc = "idle"
  /\ StartCall("data", storage)
  /\ UNCHANGED <<storage, pathname, providerVars>>

DataSettled ==
  /\ UNCHANGED notAuthVars
  /\ callKind = "data" /\ callPc \in {"resolved", "rejected"}
  /\ EndCall
  /\ UNCHANGED <<storage, pathname, providerVars>>

\* The router shows another page.
Navigate ==
  /\ UNCHANGED notAuthVars
  /\ pathname' = IF pathname = LoginPath THEN DashboardPath ELSE LoginPath
  /\ UNCHANGED <<storage, callFields, providerVars>>

\* The document is loaded again (by the user, or after location.href was
\* assigned): localStorage stays, everything else starts over.
Reload ==
  /\ UNCHANGED notAuthVars
  /\ authPc # "mounting"
  /\ EndCall
  /\ user' = NoUser /\ authLoading' = TRUE /\ authPc' = "mounting" /\ authToast' = ""
  /\ loginData' = NoPair /\ loginResult' = "none" /\ initResult' = "pending"
  /\ UNCHANGED <<storage, pathname>>

NextAuth ==
  \/ InitAuth
  \/ InitAuthValidated
  \/ InitAuthFailed
  \/ LoginStart
  \/ LoginPosted
  \/ LoginProfiled
  \/ LoginFailed
  \/ Logout
  \/ DataCall
  \/ DataSettled
  \/ Navigate
  \/ Reload
  \/ ReplyOk
  \/ ReplyUnauthorized
  \/ ReplyError

SpecAuth == Init /\ [][NextAuth]_vars

\* ------------------------------------------------------------------ claims
Progresses(evs) == [i \in DOMAIN evs |-> evs[i].progress]
NonDecreasing(ns) == \A i, j \in DOMAIN ns : i <= j => ns[i] <= ns[j]
IsTerminalEvent(e) == e.status \in {"completed", "failed"}
TerminalIndexes(evs) == {i \in DOMAIN evs : IsTerminalEvent(evs[i])}
FirstTerminal(evs) ==
  evs[CHOOSE i \in TerminalIndexes(evs) : \A j \in TerminalIndexes(evs) : i <= j]

RECURSIVE IsSubseq(_, _)
IsSubseq(a, b) ==
  IF a = <<>> THEN TRUE
  ELSE IF b = <<>> THEN FALSE
  ELSE IF Head(a) = Head(b) THEN IsSubseq(Tail(a), Tail(b))
  ELSE IsSubseq(a, Tail(b))

\* C1: whenever a rebuild call has resolved and the events the server wrote
\* include a terminal one, success is TRUE exactly when the first terminal
\* event written is 'completed'.
C1_SuccessFollowsFirstTerminal ==
  (op = "rebuild" /\ pc = "resolved" /\ TerminalIndexes(sent) # {})
    => outcome.success = (FirstTerminal(sent).status = "completed")

\* With every chunk ending at a line end, the statement of C1 holds.
C1_HoldsForWholeLines ==
  ~cut => C1_SuccessFollowsFirstTerminal

\* C2: a rebuild run and the run over the same chunks without their malformed
\* data lines make the same callbacks, resolve at the same read and with the
\* same outcome; a malformed line never makes the call reject.
C2_MalformedLineChangesNothing ==
  op = "rebuild" =>
    /\ calls = refCalls
    /\ (pc = "resolved") = refReturned
    /\ (pc = "resolved" => outcome = refOutcome)
    /\ error # "SyntaxError"

\* A malformed line was read before a terminal event, after which the call
\* resolved with two events delivered.
C2_Witness ==
  /\ op = "rebuild" /\ pc = "resolved" /\ wire = <<>>
  /\ nframes > Len(sent) /\ Len(calls) = 2
  /\ outcome.data.status = "failed"

\* C4: once a rebuild request has been answered with a response that is not
\* ok, the call is rejected with 'Rebuild failed: <statusText>', no callback
\* has been made and no reader has been taken.
C4_NotOkRejectsBeforeAnyCallback ==
  (op = "rebuild" /\ response # NoResponse /\ ~response.ok)
    => /\ pc = "rejected"
       /\ error = "Rebuild failed: " \o response.statusText
       /\ calls = <<>>
       /\ readerAcquired = 0

C4_Witness ==
  /\ op = "rebuild" /\ response.ok = FALSE /\ response.body
  /\ response.statusText = "Internal Server Error" /\ pc = "rejected"

\* C5: for both streaming operations an ok response without a body rejects
\* the call with 'No response body' and no callback is made; a response that
\* is not ok rejects uploadDocument with 'Upload failed: <statusText>'.
C5_NoBodyAndUploadFailure ==
  /\ (op \in {"rebuild", "upload"} /\ response.ok /\ ~response.body)
       => (pc = "rejected" /\ error = "No response body" /\ calls = <<>>
           /\ readerAcquired = 0)
  /\ (op = "upload" /\ response # NoResponse /\ ~response.ok)
       => (pc = "rejected" /\ error = "Upload failed: " \o response.statusText
           /\ calls = <<>>)

C5_Witness ==
  /\ op = "upload" /\ response.ok /\ ~response.body /\ pc = "rejected"

\* C6: when the body has ended and been read to its end without a terminal
\* event being delivered, the rebuild call has rejected.
C6_TruncationRejects ==
  (op = "rebuild" /\ Settled /\ response.ok /\ response.body
     /\ closed /\ wire = <<>> /\ ~TerminalDelivered)
    => pc = "rejected"

\* C7: whenever a rebuild call has resolved, the data of its outcome is the
\* last event handed to the callback.
C7_DataIsLastDelivered ==
  (op = "rebuild" /\ pc = "resolved")
    => (calls # <<>> /\ outcome.data = calls[Len(calls)])

\* When a terminal event was delivered, the statement of C7 holds.
C7_HoldsAfterTerminal ==
  (op = "rebuild" /\ pc = "resolved" /\ TerminalDelivered)
    => outcome.data = calls[Len(calls)]

C9_ProgressNonDecreasing ==
  (op = "rebuild" /\ NonDecreasing(Progresses(sent)))
    => (IsSubseq(calls, sent) /\ NonDecreasing(Progresses(calls)))

C9_Witness ==
  /\ op = "rebuild" /\ pc = "resolved"
  /\ Progresses(calls) = <<10, 50, 100>>

C11_FailureToastCarriesServerMessage ==
  (uiPc = "idle" /\ result.data.status = "failed" /\ result.data.message # NoMessage)
    => (toast.title = "Error" /\ toast.description = result.data.message)

PcSteps ==
  {<<"idle", "requesting">>, <<"requesting", "streaming">>, <<"requesting", "rejected">>,
   <<"streaming", "resolved">>, <<"streaming", "rejected">>,
   <<"resolved", "idle">>, <<"rejected", "idle">>}

\* C13: a rebuild call moves only along idle -> requesting -> streaming ->
\* {resolved, rejected}; while it is settled nothing of it changes; it has
\* issued exactly one request and taken at most one reader, whatever the
\* response and the stream held.
C13_OneRequestNoRetry ==
  [][/\ (op' = "rebuild" /\ pc' # pc) => <<pc, pc'>> \in PcSteps
     /\ (op = "rebuild" /\ Settled /\ op' = "rebuild")
          => (pc' = pc /\ outcome' = outcome /\ error' = error /\ calls' = calls)
     /\ (op' = "rebuild") => (fetches' = 1 /\ readerAcquired' <= 1)]_vars

\* A rebuild call was rejected for a response that was not ok, after its one
\* request.
C13_Witness ==
  /\ op = "rebuild" /\ pc = "rejected" /\ ~response.ok /\ response # NoResponse
  /\ fetches = 1

\* The (status, progress) pairs of the events that have a status.
StatusPairs(evs) ==
  LET withStatus == SelectSeq(evs, LAMBDA e : e.status # NoStatus)
  IN [i \in DOMAIN withStatus |-> <<withStatus[i].status, withStatus[i].progress>>]

\* C18: when uploadDocument has resolved, onProgress has been called once
\* with (status, progress) for every event with a status that the server
\* wrote, in stream order, and with nothing else, and the value resolved with
\* is {data: {success: true}}.
C18_UploadDeliversEveryStatusFrame ==
  (op = "upload" /\ pc = "resolved")
    => (calls = StatusPairs(sent) /\ outcome = UploadOutcome)

\* With every chunk ending at a line end, the statement of C18 holds, and at
\* any time the callbacks made are those of the events read so far.
C18_HoldsForWholeLines ==
  (op = "upload" /\ ~cut) =>
    /\ (wire = <<>> => calls = StatusPairs(sent))
    /\ (pc = "resolved" => outcome = UploadOutcome)
    /\ pc = "rejected" => response # [ok |-> TRUE, body |-> TRUE, statusText |-> "OK"] \/ error = "network error"

\* The events up to and including the first terminal one.
UpToFirstTerminal(evs) ==
  IF TerminalIndexes(evs) = {} THEN evs
  ELSE SubSeq(evs, 1, CHOOSE i \in TerminalIndexes(evs) : \A j \in TerminalIndexes(evs) : i <= j)

\* What the bytes of the stream say, however they are cut into chunks: the
\* events up to the first terminal one are delivered, once each and in
\* order, and a terminal event decides the outcome.
DeliveredAsWritten ==
  (op = "rebuild" /\ (pc = "resolved" \/ (pc = "streaming" /\ wire = <<>>))) =>
    /\ calls = UpToFirstTerminal(sent)
    /\ (pc = "resolved" /\ TerminalIndexes(sent) # {})
         => outcome = TerminalOutcome(FirstTerminal(sent))

\* C23: the events handed to the callback and the outcome of a rebuild call
\* are those the bytes read so far say, wherever reader.read() cut them: every
\* frame read is delivered once, a terminal frame decides the outcome.
C23_ChunkingDoesNotMatter == DeliveredAsWritten

\* With every chunk ending at a line end, the statement of C23 holds.
C23_HoldsForWholeLines == ~cut => DeliveredAsWritten

\* C26: for both streaming operations the reader is taken at most once, its
\* lock is not released while the stream is being read, and it has been
\* released exactly once when the call has settled after taking the reader,
\* whether by a terminal event, the end of the stream or a failing read; a
\* call that never took the reader releases nothing.
C26_LockReleasedOnce ==
  op \in {"rebuild", "upload"} =>
    /\ readerAcquired <= 1
    /\ pc = "streaming" => (readerAcquired = 1 /\ readerReleased = 0)
    /\ Settled => readerReleased = readerAcquired
    /\ pc = "requesting" => (readerAcquired = 0 /\ readerReleased = 0)

\* An upload whose read failed after a callback: the lock was released once.
C26_Witness ==
  /\ op = "upload" /\ pc = "rejected" /\ error = "network error"
  /\ calls # <<>> /\ readerAcquired = 1 /\ readerReleased = 1

\* C14: the original request of a call is sent again only once, after it was
\* answered 401 and refreshToken() stored a new access and refresh token, and
\* then with 'Bearer <new access token>'; a request whose refresh succeeded is
\* on its way again; the caller gets the result of the latest send.
C14_RefreshThenRetry ==
  [][/\ (sends' = sends + 1 /\ sends >= 1) =>
          /\ sends = 1 /\ lastReply = [status |-> 401, n |-> 1]
          /\ refreshes' >= 1 /\ lastRefreshed' # NoPair
          /\ storage'.access_token = lastRefreshed'.access_token
          /\ storage'.refresh_token = lastRefreshed'.refresh_token
          /\ lastSend' = [kind |-> callKind, auth |-> Bearer(lastRefreshed'.access_token),
                          token |-> lastRefreshed'.access_token]
     /\ (callPc' = "pending" /\ Len(stack') = 1 /\ stack'[1].retry) => sends' = 2
     /\ (callPc = "pending" /\ callPc' = "resolved") =>
          (lastReply' = [status |-> 200, n |-> sends] /\ callData' \in DataFor(callKind))
     /\ (callPc = "pending" /\ callPc' = "rejected" /\ ~refreshFailed') =>
          (lastReply'.n = sends /\ lastReply'.status # 200)]_vars

\* A data request was answered 401, the refresh stored the pair a2/r2, and the
\* request sent again was answered 2xx.
C14_Witness ==
  /\ callKind = "data" /\ callPc = "resolved" /\ sends = 2 /\ refreshes = 1
  /\ lastRefreshed.access_token = "a2" /\ storage.access_token = "a2"
  /\ storage.refresh_token = "r2"
  /\ lastSend.auth = Bearer("a2")

\* C15: the original request of a call is sent at most twice; when the second
\* send is answered 401 the call is rejected at once, and once the request has
\* been sent a second time no refresh request is sent for the call.
C15_AtMostOneRetry ==
  [][/\ sends' <= 2
     /\ lastReply' = [status |-> 401, n |-> 2] => (callPc' = "rejected" /\ stack' = <<>>)
     /\ (sends = 2 /\ sends' = 2) => refreshes' = refreshes]_vars

\* The request sent again after a successful refresh was answered 401: the
\* call is rejected, with one refresh made and the refreshed tokens in place.
C15_Witness ==
  /\ lastReply = [status |-> 401, n |-> 2] /\ callPc = "rejected"
  /\ sends = 2 /\ refreshes = 1 /\ ~refreshFailed
  /\ storage.access_token = lastRefreshed.access_token

\* C16: at the step where refreshToken() fails inside the 401 handling, the
\* three keys are removed from localStorage, the path becomes /auth/login with
\* location.href assigned exactly when it was not there already, the call is
\* rejected, and the original request has been sent once and is not sent again.
C16_RefreshFailureLogsOut ==
  [][/\ (refreshFailed' /\ ~refreshFailed) =>
          /\ storage' = EmptyStorage
          /\ pathname' = LoginPath
          /\ hrefAssigned' = (pathname # LoginPath)
          /\ callPc' = "rejected" /\ stack' = <<>>
          /\ sends = 1 /\ sends' = 1
     /\ (refreshFailed /\ refreshFailed') => sends' = sends]_vars

\* A refresh request was posted and failed while the dashboard was shown.
C16_Witness ==
  /\ refreshFailed /\ hrefAssigned /\ callPc = "rejected"
  /\ refreshes = 1 /\ sends = 1
  /\ storage = EmptyStorage /\ pathname = LoginPath

\* C17: every request sent through the axios client carries 'Bearer <t>', t
\* being access_token as stored when it is sent, if a token is stored, and no
\* Authorization header otherwise.
C17_HeaderIffToken ==
  lastSend.kind # "none" =>
    lastSend.auth = (IF lastSend.token # AbsentItem THEN Bearer(lastSend.token) ELSE NoHeader)

\* The login request of a fresh session went out without a header.
C17_Witness ==
  /\ lastSend.kind = "login" /\ lastSend.token = AbsentItem /\ lastSend.auth = NoHeader
  /\ callPc = "pending"

LogoutClearsUser == authToast' = "Logged out" => user' = NoUser

\* C20 as stated: at the step where login() resolves, access_token and
\* refresh_token in localStorage are the tokens the login endpoint returned,
\* user is the profile just fetched and is stored, and isLoading is false;
\* after logout() user is null.
C20_LoginStoresLoginTokens ==
  [][/\ (loginResult = "pending" /\ loginResult' = "resolved") =>
          /\ storage'.access_token = loginData.access_token
          /\ storage'.refresh_token = loginData.refresh_token
          /\ user' = callData.user /\ user' \in Users
          /\ storage'.user = Stringify(user')
          /\ ~authLoading'
     /\ LogoutClearsUser]_vars

\* fetch() of the rebuild stream is called in this step.
RebuildRequested == fetches' > fetches /\ op' = "rebuild"

\* fetchBackupStats() is started in this step by the mount effect or by the
\* Refresh Stats button.
StatsRequestedFromView == statsFetch' # statsFetch

\* fetchBackupStats() is started in this step by rebuildVectorStore, after
\* its rebuild has completed.
StatsRequestedAfterRebuild == uiPc # "refreshing" /\ uiPc' = "refreshing"

\* C22 as stated: while the user is absent or not an admin, no step of the
\* page requests a rebuild or the backup statistics.
C22_NoAdminCallWhenDenied ==
  [][role # "admin" =>
       ~(RebuildRequested \/ StatsRequestedFromView \/ StatsRequestedAfterRebuild)]_vars

\* C22 amended: while the user is absent or not an admin, nothing of the view
\* requests a rebuild or the backup statistics; the only admin call made then
\* is the statistics request that closes a rebuild already awaited.
C22_DeniedViewStartsNothing ==
  [][role # "admin" =>
       /\ ~(RebuildRequested \/ StatsRequestedFromView)
       /\ StatsRequestedAfterRebuild => (uiPc = "awaiting" /\ outcome.success)]_vars

\* The user is no admin any more and the rebuild started before has just
\* completed: its closing statistics request is under way.
C22_Witness == role # "admin" /\ uiPc = "refreshing"

\* C24: while every refresh request is answered 401 the refresh endpoint is
\* called fewer than MaxRefreshDepth times for one call: by then the tokens
\* have been cleared and the call rejected.
C24_RefreshLoopEnds ==
  ~(/\ callPc = "pending"
    /\ refreshes >= MaxRefreshDepth
    /\ Len(stack) = refreshes + 1
    /\ storage.refresh_token # AbsentItem)

\* At most one refresh request is under way at a time.
OneRefreshUnderWay == Cardinality({i \in Requests : flights[i].pc = "refreshing"}) <= 1

\* No refresh request under way carries a refresh token the server has
\* replaced already.
NoRefreshWithRotatedToken ==
  \A i \in Requests : flights[i].pc = "refreshing" => flights[i].posted = serverRefresh

\* No request has logged out after posting the refresh token with which the
\* refresh of another request succeeded.
NoLogoutBesideRefresh ==
  \A i, j \in Requests :
    ~(/\ i # j /\ flights[i].refreshed /\ flights[j].loggedOut
      /\ flights[j].posted # AbsentItem /\ flights[j].posted = flights[i].posted)

\* C25: of the requests answered 401 while under way together, one alone
\* posts a refresh request; none posts a refresh token already replaced, and
\* none logs out while the refresh of another succeeded.
C25_OneRefreshForAll ==
  OneRefreshUnderWay /\ NoRefreshWithRotatedToken /\ NoLogoutBesideRefresh

\* m is text without the blanks at its two ends.
IsTrimOf(m, text) ==
  /\ m # <<>> => (m[1] # " " /\ m[Len(m)] # " ")
  /\ \E i \in 0..Len(text), j \in 0..Len(text) :
       /\ i + j + Len(m) = Len(text)
       /\ \A n \in 1..Len(text) :
            IF n <= i \/ n > i + Len(m) THEN text[n] = " " ELSE text[n] = m[n - i]

AsBeforeTheSend ==
  /\ messages' = listAtSend
  /\ Len(SelectSeq(messages', LAMBDA msg : msg.role = "assistant"))
       = Len(SelectSeq(messages, LAMBDA msg : msg.role = "assistant"))
  /\ conversationId' = conversationId
  /\ ~chatLoading'

\* A send request rejects in this step, and the history effect has not set
\* the list since the send.
RejectsUndisturbed ==
  /\ Len(chatPending') < Len(chatPending) /\ Len(messages') <= Len(messages)
  /\ chatToast' = "Failed to send message"
  /\ ~replaced

\* The temporary id of the rejected send is the id of no message the send
\* found in the list.
TemporaryIdFresh ==
  \A k \in DOMAIN chatPending : \A n \in DOMAIN listAtSend :
    listAtSend[n].id # chatPending[k].userMessage.id

\* C27: when the send request rejects, the message list is the list before
\* the send, no assistant message is added, onConversationCreated is not
\* called and isLoading is false.
C27_FailureRestoresList == [][RejectsUndisturbed => AsBeforeTheSend]_vars

\* The statement of C27 holds for a send whose temporary id was fresh.
C27_HoldsForFreshIds ==
  [][(RejectsUndisturbed /\ TemporaryIdFresh) => AsBeforeTheSend]_vars

\* C28: at the step where login() rejects, localStorage does not hold the
\* tokens that attempt wrote, user is what it was and isLoading is false.
C28_LoginAllOrNothing ==
  [][(loginResult = "pending" /\ loginResult' = "rejected") =>
        /\ loginData # NoPair =>
             ~(/\ storage'.access_token = loginData.access_token
               /\ storage'.refresh_token = loginData.refresh_token)
        /\ user' = user
        /\ ~authLoading']_vars

\* When login() rejects, user is what it was and isLoading is false.
C28_UserAndLoadingHold ==
  [][(loginResult = "pending" /\ loginResult' = "rejected") =>
        (user' = user /\ ~authLoading')]_vars

\* The tokens in localStorage when login() resolves: those of the login
\* endpoint, or those of the refresh endpoint when the profile request was
\* answered 401 and the token was refreshed.
TokensAfterLogin == IF lastRefreshed # NoPair THEN lastRefreshed ELSE loginData

\* C20 amended: the same, with the stored tokens being TokensAfterLogin.
C20_LoginStoresLatestTokens ==
  [][/\ (loginResult = "pending" /\ loginResult' = "resolved") =>
          /\ storage'.access_token = TokensAfterLogin.access_token
          /\ storage'.refresh_token = TokensAfterLogin.refresh_token
          /\ user' = callData.user /\ user' \in Users
          /\ storage'.user = Stringify(user')
          /\ ~authLoading'
     /\ LogoutClearsUser]_vars

\* login() has resolved: the tokens of the login endpoint and the profile are
\* stored.
C20_Witness ==
  /\ loginResult = "resolved" /\ authPc = "ready" /\ authToast = "Welcome back!"
  /\ loginData = [access_token |-> "a1", refresh_token |-> "r1"]
  /\ storage = [access_token |-> "a1", refresh_token |-> "r1", user |-> Stringify("u2")]
  /\ user = "u2" /\ ~authLoading

\* The query-string part of a url: what follows the '?'.
QueryOf(url) == IF Len(url) >= 2 /\ url[2] = "?" THEN SubSeq(url, 3, Len(url)) ELSE <<>>

RECURSIVE SplitOn(_, _, _)
SplitOn(s, sep, cur) ==
  IF s = <<>> THEN <<cur>>
  ELSE IF Head(s) = sep THEN <<cur>> \o SplitOn(Tail(s), sep, <<>>)
  ELSE SplitOn(Tail(s), sep, Append(cur, Head(s)))

DecodeChar(c) ==
  CASE c = "+" -> " "
    [] c = "%26" -> "&"
    [] OTHER -> c

DigitValue(c) == IF \E d \in 0..9 : DigitChars[d + 1] = c
                 THEN CHOOSE d \in 0..9 : DigitChars[d + 1] = c ELSE 0

RECURSIVE ToNumber(_, _)
ToNumber(str, acc) ==
  IF str = <<>> THEN acc ELSE ToNumber(Tail(str), acc * 10 + DigitValue(Head(str)))

\* One name=value part of a query string, decoded the way a server reads it.
ParsePart(part) ==
  LET name == IF part = <<>> THEN "" ELSE part[1]
      raw == [i \in 1..(IF Len(part) >= 2 THEN Len(part) - 2 ELSE 0) |-> DecodeChar(part[i + 2])]
  IN IF name = "batch_size" THEN [name |-> name, str |-> <<>>, num |-> ToNumber(raw, 0)]
     ELSE [name |-> name, str |-> raw, num |-> 0]

\* The (name, value) pairs a server reads from a query string.
ParseQuery(query) ==
  IF query = <<>> THEN <<>>
  ELSE LET parts == SplitOn(query, "&", <<>>)
       IN [i \in DOMAIN parts |-> ParsePart(parts[i])]

\* The pairs of the filters that were supplied at all.
SuppliedPairs(f) ==
  (IF f.defined /\ f.user_filter.present
   THEN <<[name |-> "user_filter", str |-> f.user_filter.value, num |-> 0]>> ELSE <<>>)
  \o (IF f.defined /\ f.document_filter.present
      THEN <<[name |-> "document_filter", str |-> f.document_filter.value, num |-> 0]>>
      ELSE <<>>)
  \o (IF f.defined /\ f.batch_size.present
      THEN <<[name |-> "batch_size", str |-> <<>>, num |-> f.batch_size.value]>> ELSE <<>>)

\* The pairs of the filters that were supplied with a non-empty string or,
\* for batch_size, a number.
NonEmptyPairs(f) ==
  SelectSeq(SuppliedPairs(f), LAMBDA pr : pr.str # <<>> \/ pr.name = "batch_size")

ExampleFilters ==
  [defined |-> TRUE, user_filter |-> Some(<<"u", "1">>), document_filter |-> AbsentString,
   batch_size |-> Some(50)]

\* C3 as stated: the query string of the url holds exactly the supplied
\* filters, in the order user_filter, document_filter, batch_size, each with
\* its value, and the url has no query string when none was supplied.
C3_QueryHoldsSuppliedFilters ==
  qWhich # "none" =>
    /\ qUrl[1] = PathOf(qWhich)
    /\ ParseQuery(QueryOf(qUrl)) = SuppliedPairs(qFilters)
    /\ (SuppliedPairs(qFilters) = <<>> => qUrl = <<PathOf(qWhich)>>)

\* C3 amended: the same for the filters supplied with a non-empty string or a
\* (positive) batch size; {user_filter:'u1', batch_size:50} gives exactly
\* 'user_filter=u1&batch_size=50'.
C3_QueryHoldsNonEmptyFilters ==
  qWhich # "none" =>
    /\ qUrl[1] = PathOf(qWhich)
    /\ ParseQuery(QueryOf(qUrl)) = NonEmptyPairs(qFilters)
    /\ (NonEmptyPairs(qFilters) = <<>> => qUrl = <<PathOf(qWhich)>>)
    /\ (qFilters = ExampleFilters =>
          QueryOf(qUrl) = <<"user_filter", "=", "u", "1", "&", "batch_size", "=", "5", "0">>)

\* The streaming operation was called with a user filter that needs encoding,
\* no document filter, and a batch size.
C3_Witness ==
  /\ qWhich = "stream"
  /\ qFilters.user_filter = Some(<<"&", " ">>)
  /\ ~qFilters.document_filter.present
  /\ qFilters.batch_size = Some(50)
  /\ qUrl = <<StreamPath, "?", "user_filter", "=", "%26", "+", "&", "batch_size", "=", "5", "0">>

====
